---------------------------- MODULE Spec2Model ----------------------------
(***************************************************************************)
(* State-machine model of the gamepad MCP bridge (squirelo/mcpgame).       *)
(*                                                                         *)
(* The repository holds several builds of the same program:                 *)
(*   - two validators: the pair-table one (src/unnamed/part_000:16-69,      *)
(*     repeated in part_001:63-116) and the enum one (part_000:73-158);     *)
(*   - two tool handlers: the plain one (part_001:385-423,                  *)
(*     part_002:558-592, part_002:738-772) and the one with value checks    *)
(*     after the send (part_002:273-338);                                   *)
(*   - one connection manager, written twice with the same statements       *)
(*     (src/src/types.ts:126-224 and part_001:140-219).                     *)
(* The variable build selects the build a behaviour runs.                   *)
(*                                                                         *)
(* JavaScript values are records [t, s, n]: t is the typeof tag, s the     *)
(* string payload, n the numeric payload.  Numbers are fixed point with     *)
(* Scale units per 1.0, so 1.0001 is 10001 and -0.5 is -5000.  NaN is not  *)
(* in the domain: requests arrive as JSON text, which cannot carry it.      *)
(***************************************************************************)
EXTENDS Integers, Sequences, FiniteSets, TLC

VARIABLES
    build,                \* which handler / validator the process runs
    ws,                   \* this.ws: 0 is null, otherwise a transport id
    readyState,           \* readyState of every transport the manager made
    wsReconnectInterval,  \* this.wsReconnectInterval: 0 is null, else a timer id
    timers,               \* interval timers set and not yet cleared
    lastEvents,           \* this.lastEvents
    op,                   \* the handler that ran last
    req,                  \* the tool request it was given
    res,                  \* what it returned or threw
    sent,                 \* its calls of ws.send(), in order
    before,               \* the manager's connection state when it started
    pending               \* results of request handlers not yet delivered

vars == <<build, ws, readyState, wsReconnectInterval, timers, lastEvents,
          op, req, res, sent, before, pending>>

(***************************************************************************)
(* Bounds of the model.                                                    *)
(***************************************************************************)
MaxTransports == 2
MaxTimers == 2
MaxBatchLen == 2
MaxPending == 2

(* Fixed-point unit: Scale stands for the number 1. *)
Scale == 10000

Transports == 1..MaxTransports
TimerIds == 1..MaxTimers

(***************************************************************************)
(* JavaScript values.                                                      *)
(***************************************************************************)
JsStr(s) == [t |-> "string", s |-> s, n |-> 0]
JsNum(n) == [t |-> "number", s |-> "", n |-> n]
JsBool(b) == [t |-> "boolean", s |-> "", n |-> IF b THEN 1 ELSE 0]
JsUndef == [t |-> "undefined", s |-> "", n |-> 0]

(* !x for the values of the domain: undefined, "", 0 and false are falsy. *)
Falsy(x) ==
    \/ x.t = "undefined"
    \/ x.t = "string" /\ x.s = ""
    \/ x.t = "number" /\ x.n = 0
    \/ x.t = "boolean" /\ x.n = 0

(* A raw event: shape is what typeof / null-test see of the event itself. *)
RawEvent(shape, type, code, value) ==
    [shape |-> shape, type |-> type, code |-> code, value |-> value]

Ev(type, code, value) == RawEvent("object", JsStr(type), JsStr(code), value)

(***************************************************************************)
(* The taxonomy.                                                           *)
(***************************************************************************)
ButtonCode ==
    {"A", "B", "X", "Y", "LEFT_SHOULDER", "RIGHT_SHOULDER", "LEFT_THUMB",
     "RIGHT_THUMB", "BACK", "START", "GUIDE", "DPAD_UP", "DPAD_DOWN",
     "DPAD_LEFT", "DPAD_RIGHT"}

AxisCode == {"leftX", "leftY", "rightX", "rightY"}

TriggerCode == {"leftTrigger", "rightTrigger"}

MouseButtonCode == {"leftClick", "rightClick", "middleClick"}

KeyboardCode == {"space"}

EventType == {"button", "axis", "trigger", "mouseButton", "keyboard"}

(* The pair tables of the first types.ts. *)
VALID_BUTTON_EVENTS ==
    {<<"button", c>> : c \in ButtonCode}
        \cup {<<"keyboard", "space">>}
        \cup {<<"mouseButton", c>> : c \in MouseButtonCode}

VALID_SLIDER_EVENTS ==
    {<<"axis", c>> : c \in AxisCode} \cup {<<"trigger", c>> : c \in TriggerCode}

(* The tables of the enum types.ts: Object.values of the code enums, bare
   code strings (an entry is a 1-tuple here, a pair in the tables above). *)
VALID_BUTTON_EVENTS_Enum == {<<c>> : c \in ButtonCode}

VALID_SLIDER_EVENTS_Enum == {<<c>> : c \in AxisCode \cup TriggerCode}

(* Mutant of isValidButtonCode: the type is not compared. *)
isValidButtonCodeAnyType(type, code) ==
    \E p \in VALID_BUTTON_EVENTS : p[2] = code

isValidButtonCode(type, code) == <<type, code>> \in VALID_BUTTON_EVENTS

isValidSliderCode(type, code) == <<type, code>> \in VALID_SLIDER_EVENTS

(* Mutant of CodesOf: every type is given the codes of all the types. *)
CodesOfAnyType(type) ==
    ButtonCode \cup AxisCode \cup TriggerCode \cup MouseButtonCode
        \cup KeyboardCode

(* The code set the enum validator's switch consults for a type. *)
CodesOf(type) ==
    CASE type = "button" -> ButtonCode
      [] type = "axis" -> AxisCode
      [] type = "trigger" -> TriggerCode
      [] type = "mouseButton" -> MouseButtonCode
      [] type = "keyboard" -> KeyboardCode
      [] OTHER -> {}

(***************************************************************************)
(* Validation.  A result is [ok, err, a1, a2, ret]: err is the message     *)
(* template of the McpError(InvalidParams) thrown, a1 and a2 the values    *)
(* interpolated into it, ret the value returned.                           *)
(***************************************************************************)
NoEvent == RawEvent("undefined", JsUndef, JsUndef, JsUndef)

(* A function that returns nothing has returned. *)
Ok == [ok |-> TRUE, err |-> "", a1 |-> JsUndef, a2 |-> JsUndef, ret |-> NoEvent]

Throw(err, a1, a2) ==
    [ok |-> FALSE, err |-> err, a1 |-> a1, a2 |-> a2, ret |-> NoEvent]

(* Mutant of Return: a negative trigger value is clamped to 0. *)
ReturnClamped(event) ==
    [Ok EXCEPT !.ret =
        IF event.type.s = "trigger" /\ event.value.t = "number"
               /\ event.value.n < 0
        THEN [event EXCEPT !.value = JsNum(0)]
        ELSE event]

(* return event as GamepadEvent: the object that was passed in. *)
Return(event) == [Ok EXCEPT !.ret = event]

(* typeof value !== 'number' || value < -1 || value > 1 *)
AnalogOutOfRange(value) ==
    value.t # "number" \/ value.n < -Scale \/ value.n > Scale

(* validateEvent, pair-table build. *)
validateEventPair(event) ==
    IF event.shape # "object"
    THEN Throw("Invalid event format: event must be an object", JsUndef, JsUndef)
    ELSE IF event.type.t # "string" \/ event.code.t # "string"
    THEN Throw("Invalid event format: type and code must be strings",
               JsUndef, JsUndef)
    ELSE IF event.type.s \in {"button", "mouseButton", "keyboard"}
    THEN IF ~isValidButtonCode(event.type.s, event.code.s)
         THEN Throw("Invalid ${type} code: ${code}", event.type, event.code)
         ELSE IF event.value.t # "boolean"
         THEN Throw("Invalid value for ${type}: must be boolean",
                    event.type, JsUndef)
         ELSE Return(event)
    ELSE IF event.type.s \in {"axis", "trigger"}
    THEN IF ~isValidSliderCode(event.type.s, event.code.s)
         THEN Throw("Invalid ${type} code: ${code}", event.type, event.code)
         ELSE IF AnalogOutOfRange(event.value)
         THEN Throw("Invalid value for ${type}: must be number between -1 and 1",
                    event.type, JsUndef)
         ELSE Return(event)
    ELSE Throw("Invalid event type: ${type}", event.type, JsUndef)

(* Mutant of validateAnalogValue: every number is accepted. *)
validateAnalogValueAnyNumber(value) ==
    IF value.t # "number"
    THEN Throw("Analog value must be a number between -1 and 1", JsUndef, JsUndef)
    ELSE Ok

(* validateAnalogValue of the enum build. *)
validateAnalogValue(value) ==
    IF AnalogOutOfRange(value)
    THEN Throw("Analog value must be a number between -1 and 1", JsUndef, JsUndef)
    ELSE Ok

(* validateEvent, enum build. *)
validateEventEnum(event) ==
    IF event.shape # "object"
    THEN Throw("Event must be an object", JsUndef, JsUndef)
    ELSE IF Falsy(event.type)
            \/ ~(event.type.t = "string" /\ event.type.s \in EventType)
    THEN Throw("Invalid event type: ${type}. Must be one of: ${types}",
               event.type, JsUndef)
    ELSE IF Falsy(event.code)
    THEN Throw("Event code is required", JsUndef, JsUndef)
    ELSE IF ~(event.code.t = "string" /\ event.code.s \in CodesOf(event.type.s))
    THEN Throw("Invalid ${type} code: ${code}. Must be one of: ${codes}",
               event.type, event.code)
    ELSE IF event.type.s \in {"axis", "trigger"}
    THEN LET a == validateAnalogValue(event.value)
         IN IF a.ok THEN Return(event) ELSE a
    ELSE IF event.value.t # "boolean"
    THEN Throw("${type} value must be boolean", event.type, JsUndef)
    ELSE Return(event)

validateEvent(validator, event) ==
    IF validator = "pair" THEN validateEventPair(event)
    ELSE validateEventEnum(event)

(* args.events.map(validateEvent): the first rejection in sequence order is
   the one thrown; when every element validates, ret is the array of the
   values returned, in order. *)
RECURSIVE validateBatchFrom(_, _, _)
validateBatchFrom(validator, events, i) ==
    IF i > Len(events) THEN [Ok EXCEPT !.ret = <<>>]
    ELSE LET r == validateEvent(validator, events[i])
         IN IF ~r.ok THEN r
            ELSE LET rest == validateBatchFrom(validator, events, i + 1)
                 IN IF ~rest.ok THEN rest
                    ELSE [Ok EXCEPT !.ret = <<r.ret>> \o rest.ret]

(* Mutant of validateBatch: only the first element is validated. *)
validateBatchFirstOnly(validator, events) ==
    IF Len(events) = 0 THEN [Ok EXCEPT !.ret = <<>>]
    ELSE LET r == validateEvent(validator, events[1])
         IN IF r.ok THEN [Ok EXCEPT !.ret = events] ELSE r

validateBatch(validator, events) == validateBatchFrom(validator, events, 1)

(***************************************************************************)
(* The connection manager (WebSocketHandler; GamepadServer.connectWebSocket *)
(* / sendToWebSocket in the single-file build).  Its methods are operators  *)
(* on the record m = [ws, rs, timer, timers].  A transport's readyState is  *)
(* CONNECTING, OPEN or CLOSING; NONE is a transport not yet made, or one    *)
(* whose 'close' has been delivered (CLOSED, never referenced again).       *)
(***************************************************************************)
Mgr == [ws |-> ws, rs |-> readyState, timer |-> wsReconnectInterval,
        timers |-> timers]

NewMgr == [ws |-> 0, rs |-> [t \in Transports |-> "NONE"], timer |-> 0,
           timers |-> {}]

FreeTransports(m) == {t \in Transports : m.rs[t] = "NONE"}

FreeTimers(m) == TimerIds \ m.timers

Min(S) == CHOOSE x \in S : \A y \in S : x <= y

(* this.ws?.readyState === WebSocket.OPEN *)
IsOpen(m) == m.ws # 0 /\ m.rs[m.ws] = "OPEN"

(* The connection state of the manager, read off its handle: the handle is
   null, or refers to a pending, an open or a closing transport. *)
StateOf(m) ==
    IF m.ws = 0 THEN "Disconnected"
    ELSE IF m.rs[m.ws] = "OPEN" THEN "Connected"
    ELSE IF m.rs[m.ws] = "CONNECTING" THEN "Connecting"
    ELSE "Closing"

(* Mutant of setupReconnection: setInterval without looking at the handle. *)
setupReconnectionStacking(m) ==
    IF FreeTimers(m) = {} THEN m
    ELSE LET id == Min(FreeTimers(m))
         IN [m EXCEPT !.timer = id, !.timers = @ \cup {id}]

(* setupReconnection(): setInterval only when no handle is held. *)
setupReconnection(m) ==
    IF m.timer = 0
    THEN LET id == Min(FreeTimers(m))
         IN [m EXCEPT !.timer = id, !.timers = @ \cup {id}]
    ELSE m

(* Mutant of connect: no early return for an open transport. *)
connectAlways(m, ctorThrows) ==
    IF ctorThrows THEN setupReconnection(m)
    ELSE IF FreeTransports(m) = {} THEN m
    ELSE LET t == Min(FreeTransports(m))
         IN [m EXCEPT !.ws = t, !.rs[t] = "CONNECTING"]

(* Mutant of connect: the catch block does not ask for a timer. *)
connectNoRetry(m, ctorThrows) ==
    IF IsOpen(m) THEN m
    ELSE IF ctorThrows THEN m
    ELSE LET t == Min(FreeTransports(m))
         IN [m EXCEPT !.ws = t, !.rs[t] = "CONNECTING"]

(* connect(): ctorThrows is whether new WebSocket(...) throws. *)
connect(m, ctorThrows) ==
    IF IsOpen(m) THEN m
    ELSE IF ctorThrows THEN setupReconnection(m)
    ELSE LET t == Min(FreeTransports(m))
         IN [m EXCEPT !.ws = t, !.rs[t] = "CONNECTING"]

(* What connect() needs of the model's bounds to run. *)
CanConnect(m, ctorThrows) ==
    \/ IsOpen(m)
    \/ ctorThrows /\ (m.timer # 0 \/ FreeTimers(m) # {})
    \/ ~ctorThrows /\ FreeTransports(m) # {}

(* handleOpen(): clearInterval and drop the handle. *)
handleOpen(m) ==
    IF m.timer # 0
    THEN [m EXCEPT !.timers = @ \ {m.timer}, !.timer = 0]
    ELSE m

(* Mutant of handleMessage: data that does not parse drops the handle. *)
handleMessageDropping(m, parsable) ==
    IF parsable THEN m ELSE [m EXCEPT !.ws = 0]

(* handleMessage(): logging only, for parsable and unparsable data alike. *)
handleMessage(m, parsable) == m

(* Mutant of handleClose: the handle is kept. *)
handleCloseKeepHandle(m) == setupReconnection(m)

(* handleClose(): this.ws = null; setupReconnection(). *)
handleClose(m) == setupReconnection([m EXCEPT !.ws = 0])

(* Mutant of handleError: the error handler asks for a timer. *)
handleErrorArming(m) == setupReconnection(m)

(* handleError(): logging only. *)
handleError(m) == m

(* A call this.ws.send(message) on transport t, message being
   JSON.stringify({ events }); threw is whether the call threw. *)
Frame(t, events, threw) ==
    [via |-> t, message |-> [events |-> events], threw |-> threw]

(* Mutant of send: one ws.send() per event instead of one per batch. *)
sendEachEvent(m, events, sendThrows) ==
    IF m.ws = 0 THEN <<>>
    ELSE IF m.rs[m.ws] # "OPEN" THEN <<>>
    ELSE [i \in 1..Len(events) |-> Frame(m.ws, <<events[i]>>, sendThrows)]

(* Mutant of send: the frame goes to any open transport the manager made,
   not only to the one its handle names. *)
sendViaAnyOpen(m, events, sendThrows) ==
    IF \E t \in Transports : m.rs[t] = "OPEN"
    THEN <<Frame(Min({t \in Transports : m.rs[t] = "OPEN"}), events, sendThrows)>>
    ELSE <<>>

(* Mutant of send: readyState is not tested, so a frame is handed to a
   transport that is still pending. *)
sendBuffering(m, events, sendThrows) ==
    IF m.ws = 0 THEN <<>>
    ELSE <<Frame(m.ws, events, sendThrows)>>

(* send(): the calls of ws.send() it makes.  sendThrows is whether the
   transport throws from the call; the catch swallows it. *)
send(m, events, sendThrows) ==
    IF m.ws = 0 THEN <<>>
    ELSE IF m.rs[m.ws] # "OPEN" THEN <<>>
    ELSE <<Frame(m.ws, events, sendThrows)>>

(***************************************************************************)
(* The tool handler.  A request is [name, args, events]: args is what the  *)
(* envelope test sees ("undefined": no arguments; "noEvents": no events    *)
(* key; "notArray": events is not an array; "array"), events the array.    *)
(* An outcome is [kind, code, err, a1, a2, eventsReceived].                *)
(***************************************************************************)
NoReq == [name |-> "", args |-> "undefined", events |-> <<>>]

NoRes == [kind |-> "none", code |-> "", err |-> "", a1 |-> JsUndef,
          a2 |-> JsUndef, eventsReceived |-> 0, value |-> <<>>]

(* Mutant of Success: the count reported is always 1. *)
SuccessCountOne(n) ==
    [kind |-> "success", code |-> "", err |-> "", a1 |-> JsUndef,
     a2 |-> JsUndef, eventsReceived |-> 1, value |-> <<>>]

Success(n) == [kind |-> "success", code |-> "", err |-> "", a1 |-> JsUndef,
               a2 |-> JsUndef, eventsReceived |-> n, value |-> <<>>]

McpError(code, err, a1, a2) ==
    [kind |-> "error", code |-> code, err |-> err, a1 |-> a1, a2 |-> a2,
     eventsReceived |-> 0, value |-> <<>>]

(* The value checks the part_002:273-338 handler runs on one validated event. *)
postCheckEvent(event) ==
    IF event.type.s \in {"button", "mouseButton", "keyboard"}
    THEN IF event.value.t # "boolean"
         THEN Throw("${type} events require boolean values", event.type, JsUndef)
         ELSE Ok
    ELSE IF event.type.s = "axis"
    THEN IF AnalogOutOfRange(event.value)
         THEN Throw("Axis values must be numbers between -1 and 1", JsUndef, JsUndef)
         ELSE Ok
    ELSE IF event.type.s = "trigger"
    THEN IF event.value.t # "number" \/ event.value.n < 0 \/ event.value.n > Scale
         THEN Throw("Trigger values must be numbers between 0 and 1",
                    JsUndef, JsUndef)
         ELSE Ok
    ELSE Ok

(* validatedEvents.forEach(...): the first throw ends the loop. *)
RECURSIVE postCheckFrom(_, _)
postCheckFrom(events, i) ==
    IF i > Len(events) THEN Ok
    ELSE LET r == postCheckEvent(events[i])
         IN IF r.ok THEN postCheckFrom(events, i + 1) ELSE r

(* The effect of a call: [res, lastEvents, sent]. *)
Effect(r, last, frames) == [res |-> r, lastEvents |-> last, sent |-> frames]

(* Mutant of handleCallToolPlain: an exception thrown by ws.send() is not
   caught and becomes the error of the call. *)
handleCallToolUncaught(validator, request, last, m, sendThrows) ==
    IF request.name # "send_gamepad_event"
    THEN Effect(McpError("MethodNotFound", "Unknown tool: ${name}",
                         JsStr(request.name), JsUndef), last, <<>>)
    ELSE IF request.args # "array"
    THEN Effect(McpError("InvalidParams",
                    "Invalid event message format: missing or invalid events array",
                    JsUndef, JsUndef), last, <<>>)
    ELSE LET v == validateBatch(validator, request.events)
             frames == IF v.ok THEN send(m, v.ret, sendThrows) ELSE <<>>
         IN IF ~v.ok
            THEN Effect(McpError("InvalidParams", v.err, v.a1, v.a2), last, <<>>)
            ELSE IF frames # <<>> /\ sendThrows
            THEN Effect(McpError("InternalError", "send failed", JsUndef, JsUndef),
                        v.ret, frames)
            ELSE Effect(Success(Len(v.ret)), v.ret, frames)

(* Mutant of handleCallToolPlain: a batch equal to the stored one is
   rejected as a repeat. *)
handleCallToolNoRepeat(validator, request, last, m, sendThrows) ==
    IF request.name # "send_gamepad_event"
    THEN Effect(McpError("MethodNotFound", "Unknown tool: ${name}",
                         JsStr(request.name), JsUndef), last, <<>>)
    ELSE IF request.args # "array"
    THEN Effect(McpError("InvalidParams",
                    "Invalid event message format: missing or invalid events array",
                    JsUndef, JsUndef), last, <<>>)
    ELSE LET v == validateBatch(validator, request.events)
         IN IF ~v.ok
            THEN Effect(McpError("InvalidParams", v.err, v.a1, v.a2), last, <<>>)
            ELSE IF v.ret = last /\ last # <<>>
            THEN Effect(McpError("InvalidParams", "Repeated batch", JsUndef, JsUndef),
                        last, <<>>)
            ELSE Effect(Success(Len(v.ret)), v.ret, send(m, v.ret, sendThrows))

(* handleCallTool of part_001:385-423, part_002:558-592 and 738-772. *)
handleCallToolPlain(validator, request, last, m, sendThrows) ==
    IF request.name # "send_gamepad_event"
    THEN Effect(McpError("MethodNotFound", "Unknown tool: ${name}",
                         JsStr(request.name), JsUndef), last, <<>>)
    ELSE IF request.args # "array"
    THEN Effect(McpError("InvalidParams",
                    "Invalid event message format: missing or invalid events array",
                    JsUndef, JsUndef), last, <<>>)
    ELSE LET v == validateBatch(validator, request.events)
         IN IF ~v.ok
            THEN Effect(McpError("InvalidParams", v.err, v.a1, v.a2), last, <<>>)
            ELSE Effect(Success(Len(v.ret)), v.ret, send(m, v.ret, sendThrows))

(* handleCallTool of part_002:273-338: the value checks run after the
   assignment to lastEvents and after the send. *)
handleCallToolPost(validator, request, last, m, sendThrows) ==
    LET e == handleCallToolPlain(validator, request, last, m, sendThrows)
        c == postCheckFrom(e.lastEvents, 1)
    IN IF e.res.kind = "success" /\ ~c.ok
       THEN [e EXCEPT !.res = McpError("InvalidParams", c.err, c.a1, c.a2)]
       ELSE e

handleCallTool(b, request, last, m, sendThrows) ==
    IF b.handler = "post"
    THEN handleCallToolPost(b.validator, request, last, m, sendThrows)
    ELSE handleCallToolPlain(b.validator, request, last, m, sendThrows)

(***************************************************************************)
(* The resource handler.  The result of a read is kind "resource" with     *)
(* value = <<the object whose JSON text is returned>>.  Each build serves  *)
(* the tables of the types.ts its validator is written against.            *)
(***************************************************************************)
Resource(content) ==
    [kind |-> "resource", code |-> "", err |-> "", a1 |-> JsUndef,
     a2 |-> JsUndef, eventsReceived |-> 0, value |-> <<content>>]

(* Mutant of handleReadResource: the events resource is served empty. *)
handleReadResourceEmpty(b, uri, last) ==
    IF uri = "gamepad://events" THEN Resource([events |-> <<>>])
    ELSE McpError("InvalidRequest", "Unknown resource: ${uri}", JsStr(uri), JsUndef)

handleReadResource(b, uri, last) ==
    IF uri = "gamepad://events" THEN Resource([events |-> last])
    ELSE IF uri = "gamepad://valid-events"
    THEN IF b.validator = "pair"
         THEN Resource([buttonEvents |-> VALID_BUTTON_EVENTS,
                        sliderEvents |-> VALID_SLIDER_EVENTS])
         ELSE Resource([buttonEvents |-> VALID_BUTTON_EVENTS_Enum,
                        sliderEvents |-> VALID_SLIDER_EVENTS_Enum])
    ELSE McpError("InvalidRequest", "Unknown resource: ${uri}", JsStr(uri), JsUndef)

(***************************************************************************)
(* Inputs of the state machine.                                            *)
(***************************************************************************)
Builds == [handler : {"plain", "post"}, validator : {"pair", "enum"}]

EvButtonA == Ev("button", "A", JsBool(TRUE))
EvTriggerNeg == Ev("trigger", "leftTrigger", JsNum(-(Scale \div 2)))
EvButtonNum == Ev("button", "A", JsNum(Scale))

(* The events tool calls are built from: a valid button press, a trigger
   pulled to -0.5, and a button whose value is the number 1. *)
SampleEvents == {EvButtonA, EvTriggerNeg, EvButtonNum}

SeqsUpTo(S, n) == UNION {[1..k -> S] : k \in 0..n}

Requests ==
    {[name |-> "send_gamepad_event", args |-> "array", events |-> es] :
        es \in SeqsUpTo(SampleEvents, MaxBatchLen)}
    \cup {[name |-> "send_gamepad_event", args |-> a, events |-> <<>>] :
        a \in {"undefined", "noEvents", "notArray"}}
    \cup {[name |-> "other_tool", args |-> "array", events |-> <<EvButtonA>>]}

(* The example invocations of the send_gamepad_event descriptor: the
   part_002:224-267 descriptor (served with the handler of part_002:273-338)
   gives button, mouseButton and keyboard values as the number 1. *)
Examples(b) ==
    LET on == IF b.handler = "post" THEN JsNum(Scale) ELSE JsBool(TRUE)
    IN {<<Ev("button", "A", on)>>,
        <<Ev("axis", "leftX", JsNum(Scale \div 2)),
          Ev("axis", "leftY", JsNum(-(Scale \div 2)))>>,
        IF b.handler = "post"
        THEN <<Ev("button", "LEFT_SHOULDER", on), Ev("button", "RIGHT_SHOULDER", on)>>
        ELSE <<Ev("button", "LEFT_SHOULDER", on), Ev("button", "A", on)>>,
        <<Ev("mouseButton", "leftClick", on)>>,
        <<Ev("keyboard", "space", on)>>}

ResourceUris == {"gamepad://events", "gamepad://valid-events", "gamepad://other"}

(***************************************************************************)
(* The state machine.                                                      *)
(***************************************************************************)
SetMgr(m) ==
    /\ ws' = m.ws
    /\ readyState' = m.rs
    /\ wsReconnectInterval' = m.timer
    /\ timers' = m.timers

(* The requests read in one turn of the event loop are dispatched one
   after the other; the handlers are async, so their results are delivered
   afterwards, in the order of the requests and in the same turn.  A timer
   or socket callback is taken only when no result awaits delivery. *)
Idle == pending = <<>>

(* A request handler can run: no result of this turn has been delivered
   while others still wait. *)
Dispatching ==
    /\ Len(pending) < MaxPending
    /\ op = "respond" => pending = <<>>

(* What a timer or socket callback leaves in the history. *)
Ran(name) ==
    /\ Idle
    /\ op' = name
    /\ req' = NoReq
    /\ res' = NoRes
    /\ sent' = <<>>
    /\ before' = StateOf(Mgr)
    /\ pending' = pending

(* The constructor: fields at their initializers, then connect().
   ctorThrows is whether new WebSocket(...) throws there. *)
Constructed(ctorThrows) ==
    /\ build \in Builds
    /\ LET m == connect(NewMgr, ctorThrows)
       IN /\ ws = m.ws
          /\ readyState = m.rs
          /\ wsReconnectInterval = m.timer
          /\ timers = m.timers
    /\ lastEvents = <<>>
    /\ op = "init"
    /\ req = NoReq
    /\ res = NoRes
    /\ sent = <<>>
    /\ before = StateOf(NewMgr)
    /\ pending = <<>>

Init == Constructed(FALSE)

(* A tools/call request is dispatched to handleCallTool. *)
CallTool(request, sendThrows) ==
    LET e == handleCallTool(build, request, lastEvents, Mgr, sendThrows)
    IN /\ Dispatching
       /\ op' = "callTool"
       /\ req' = request
       /\ res' = e.res
       /\ sent' = e.sent
       /\ lastEvents' = e.lastEvents
       /\ before' = StateOf(Mgr)
       /\ pending' = Append(pending, e.res)
       /\ UNCHANGED <<build, ws, readyState, wsReconnectInterval, timers>>

(* The oldest undelivered result or error goes back to its caller. *)
Respond ==
    /\ pending # <<>>
    /\ op' = "respond"
    /\ req' = NoReq
    /\ res' = NoRes
    /\ sent' = <<>>
    /\ before' = StateOf(Mgr)
    /\ pending' = Tail(pending)
    /\ UNCHANGED <<build, ws, readyState, wsReconnectInterval, timers,
                   lastEvents>>

(* A resources/read request is dispatched to the resource handler. *)
ReadResource(uri) ==
    /\ Dispatching
    /\ op' = "readResource"
    /\ req' = [name |-> uri, args |-> "undefined", events |-> <<>>]
    /\ res' = handleReadResource(build, uri, lastEvents)
    /\ sent' = <<>>
    /\ before' = StateOf(Mgr)
    /\ pending' = Append(pending, handleReadResource(build, uri, lastEvents))
    /\ UNCHANGED <<build, ws, readyState, wsReconnectInterval, timers,
                   lastEvents>>

(* An interval timer fires: its callback calls connect(). *)
TimerTick(id, ctorThrows) ==
    /\ id \in timers
    /\ CanConnect(Mgr, ctorThrows)
    /\ SetMgr(connect(Mgr, ctorThrows))
    /\ Ran("tick")
    /\ UNCHANGED <<build, lastEvents>>

(* Transport t emits 'open'. *)
TransportOpen(t) ==
    /\ readyState[t] = "CONNECTING"
    /\ SetMgr(handleOpen([Mgr EXCEPT !.rs[t] = "OPEN"]))
    /\ Ran("open")
    /\ UNCHANGED <<build, lastEvents>>

(* Transport t emits 'message'. *)
TransportMessage(t, parsable) ==
    /\ readyState[t] \in {"OPEN", "CLOSING"}
    /\ SetMgr(handleMessage(Mgr, parsable))
    /\ Ran("message")
    /\ UNCHANGED <<build, lastEvents>>

(* The peer starts the closing handshake of transport t: no event yet. *)
TransportClosing(t) ==
    /\ readyState[t] = "OPEN"
    /\ SetMgr([Mgr EXCEPT !.rs[t] = "CLOSING"])
    /\ Ran("closing")
    /\ UNCHANGED <<build, lastEvents>>

(* Transport t emits 'error' (refused, handshake timeout, protocol error):
   the library has moved it to CLOSING, if it was not there already, and
   will emit 'close' next. *)
TransportError(t) ==
    /\ readyState[t] \in {"CONNECTING", "OPEN", "CLOSING"}
    /\ SetMgr(handleError([Mgr EXCEPT !.rs[t] = "CLOSING"]))
    /\ Ran("error")
    /\ UNCHANGED <<build, lastEvents>>

(* Transport t emits 'close'. *)
TransportClose(t) ==
    /\ readyState[t] \in {"OPEN", "CLOSING"}
    /\ SetMgr(handleClose([Mgr EXCEPT !.rs[t] = "NONE"]))
    /\ Ran("close")
    /\ UNCHANGED <<build, lastEvents>>

(* The program with a transport library that reports every failure through
   its 'error' and 'close' events. *)
Next ==
    \/ \E request \in Requests : CallTool(request, FALSE)
    \/ Respond
    \/ \E uri \in ResourceUris : ReadResource(uri)
    \/ \E id \in TimerIds : TimerTick(id, FALSE)
    \/ \E t \in Transports : TransportOpen(t)
    \/ \E t \in Transports, parsable \in BOOLEAN : TransportMessage(t, parsable)
    \/ \E t \in Transports : TransportClosing(t)
    \/ \E t \in Transports : TransportError(t)
    \/ \E t \in Transports : TransportClose(t)

Spec == Init /\ [][Next]_vars

(* The same program with a transport library that may also throw from its
   constructor and from send(): the cases the try/catch blocks are for. *)
FaultInit == \E ctorThrows \in BOOLEAN : Constructed(ctorThrows)

(* Whether ws.send() throws is drawn only where send() calls it. *)
SendOutcomes == IF IsOpen(Mgr) THEN BOOLEAN ELSE {FALSE}

FaultNext ==
    \/ \E request \in Requests, sendThrows \in SendOutcomes :
        CallTool(request, sendThrows)
    \/ Respond
    \/ \E uri \in ResourceUris : ReadResource(uri)
    \/ \E id \in TimerIds, ctorThrows \in BOOLEAN : TimerTick(id, ctorThrows)
    \/ \E t \in Transports : TransportOpen(t)
    \/ \E t \in Transports, parsable \in BOOLEAN : TransportMessage(t, parsable)
    \/ \E t \in Transports : TransportClosing(t)
    \/ \E t \in Transports : TransportError(t)
    \/ \E t \in Transports : TransportClose(t)

FaultSpec == FaultInit /\ [][FaultNext]_vars

(***************************************************************************)
(* The validator on its own: the input is drawn at the start and held in   *)
(* req, a one-event batch or one of the descriptor's example batches; its  *)
(* first event is validated, and the batch is submitted.  The first        *)
(* transport is pending or open, so that a submit sends or does not.       *)
(***************************************************************************)
AllCodes ==
    ButtonCode \cup AxisCode \cup TriggerCode \cup MouseButtonCode
        \cup KeyboardCode

TypeValues ==
    {JsStr(t) : t \in EventType \cup {"bogus", ""}} \cup {JsNum(Scale), JsUndef}

CodeValues ==
    {JsStr(c) : c \in AllCodes \cup {"bogus", "", "LEFT_STICK_UP", "dpadHorz",
                                     "enter"}}
        \cup {JsNum(Scale), JsUndef}

NumberValues ==
    {-(Scale + 1), -Scale, -(Scale \div 2), -1, 0, 1, Scale \div 2, Scale,
     Scale + 1}

ValueValues ==
    {JsBool(TRUE), JsBool(FALSE), JsStr("true"), JsUndef}
        \cup {JsNum(n) : n \in NumberValues}

AllRawEvents ==
    {RawEvent("object", t, c, v) :
        t \in TypeValues, c \in CodeValues, v \in ValueValues}
    \cup {RawEvent(sh, JsUndef, JsUndef, JsUndef) : sh \in {"null", "number"}}

ValInit ==
    /\ build \in Builds
    /\ ws = 1
    /\ \E rs \in {"CONNECTING", "OPEN"} :
        readyState = [t \in Transports |-> IF t = 1 THEN rs ELSE "NONE"]
    /\ wsReconnectInterval = 0
    /\ timers = {}
    /\ lastEvents = <<>>
    /\ op = "init"
    /\ \E es \in {<<e>> : e \in AllRawEvents} \cup Examples(build) :
        req = [name |-> "send_gamepad_event", args |-> "array", events |-> es]
    /\ res = NoRes
    /\ sent = <<>>
    /\ before = StateOf(NewMgr)
    /\ pending = <<>>

(* validateEvent applied to the drawn event. *)
ValValidate ==
    /\ op = "init"
    /\ op' = "validate"
    /\ LET r == validateEvent(build.validator, req.events[1])
       IN res' = IF r.ok THEN [Success(1) EXCEPT !.value = <<r.ret>>]
                 ELSE McpError("InvalidParams", r.err, r.a1, r.a2)
    /\ before' = StateOf(Mgr)
    /\ UNCHANGED <<build, ws, readyState, wsReconnectInterval, timers,
                   lastEvents, req, sent, pending>>

(* The batch a drawn event is validated in: after a valid trigger event. *)
BatchWith(event) == <<EvTriggerNeg, event>>

(* args.events.map(validateEvent) applied to the batch of the drawn event. *)
ValValidateBatch ==
    /\ op = "init"
    /\ op' = "validateBatch"
    /\ LET r == validateBatch(build.validator, BatchWith(req.events[1]))
       IN res' = IF r.ok THEN [Success(Len(r.ret)) EXCEPT !.value = r.ret]
                 ELSE McpError("InvalidParams", r.err, r.a1, r.a2)
    /\ before' = StateOf(Mgr)
    /\ UNCHANGED <<build, ws, readyState, wsReconnectInterval, timers,
                   lastEvents, req, sent, pending>>

(* The drawn batch submitted. *)
ValSubmit ==
    /\ CallTool(req, FALSE)

ValNext == ValValidate \/ ValValidateBatch \/ ValSubmit

ValSpec == ValInit /\ [][ValNext]_vars

(***************************************************************************)
(* connect() on its own, called on a manager that is Connected.  The       *)
(* program calls connect() from the constructor and from timer ticks, and  *)
(* no timer is set while the handle is open, so this is the public method  *)
(* called by another owner of the manager.  The start states are the       *)
(* Connected states of the program: the handle is open, every transport    *)
(* made before it is still in use (a close would have cleared the handle), *)
(* no timer is set, and lastEvents is any accepted batch.                  *)
(***************************************************************************)
ReadyStates == {"NONE", "CONNECTING", "OPEN", "CLOSING"}

AcceptedBatches == SeqsUpTo({EvButtonA, EvTriggerNeg}, MaxBatchLen)

ConnInit ==
    /\ build \in Builds
    /\ ws \in Transports
    /\ readyState \in [Transports -> ReadyStates]
    /\ readyState[ws] = "OPEN"
    /\ \A u \in 1..(ws - 1) : readyState[u] # "NONE"
    /\ wsReconnectInterval = 0
    /\ timers = {}
    /\ lastEvents \in AcceptedBatches
    /\ op = "init"
    /\ req = NoReq
    /\ res = NoRes
    /\ sent = <<>>
    /\ before = StateOf(NewMgr)
    /\ pending = <<>>

(* connect() is called. *)
ConnectCall(ctorThrows) ==
    /\ CanConnect(Mgr, ctorThrows)
    /\ SetMgr(connect(Mgr, ctorThrows))
    /\ Ran("connect")
    /\ UNCHANGED <<build, lastEvents>>

ConnNext == \E ctorThrows \in BOOLEAN : ConnectCall(ctorThrows)

ConnSpec == ConnInit /\ [][ConnNext]_vars

(***************************************************************************)
(* Fairness for the reconnection claims: a response is written; a timer   *)
(* that is set keeps firing and its connect() constructs a transport; a    *)
(* pending attempt is answered; a transport that has errored closes; and   *)
(* the endpoint accepts an attempt if attempts keep being made.  The       *)
(* conditions are strong because a callback waits for the turn of a tool   *)
(* call to end.                                                            *)
(***************************************************************************)
Fairness ==
    /\ WF_vars(Respond)
    /\ SF_vars(\E id \in TimerIds : TimerTick(id, FALSE))
    /\ \A t \in Transports :
        SF_vars(readyState[t] = "CONNECTING"
                    /\ (TransportOpen(t) \/ TransportError(t)))
    /\ \A t \in Transports : SF_vars(readyState[t] = "CLOSING" /\ TransportClose(t))
    /\ SF_vars(\E t \in Transports : TransportOpen(t))

LiveSpec == Init /\ [][Next]_vars /\ Fairness

(* The same scheduling with the transport library that may throw. *)
FaultLiveSpec == FaultInit /\ [][FaultNext]_vars /\ Fairness

(***************************************************************************)
(* Vocabulary of the properties.                                           *)
(***************************************************************************)
(* The manager is Connected: its handle refers to an open transport. *)
Connected == IsOpen(Mgr)

(* The last handler was a submit (a send_gamepad_event call) of an array. *)
SubmittedBatch ==
    op = "callTool" /\ req.name = "send_gamepad_event" /\ req.args = "array"

(* Per-event validation accepts / rejects some element of a batch. *)
AllValid(events) ==
    \A i \in 1..Len(events) : validateEvent(build.validator, events[i]).ok

SomeInvalid(events) ==
    \E i \in 1..Len(events) : ~validateEvent(build.validator, events[i]).ok

(* Transports the manager made that are still pending or open. *)
LiveTransports == {t \in Transports : readyState[t] \in {"CONNECTING", "OPEN"}}

(* The closed code set the taxonomy gives a type. *)
ClosedCodeSet(type) ==
    CASE type = "button" -> ButtonCode
      [] type = "mouseButton" -> MouseButtonCode
      [] type = "keyboard" -> KeyboardCode
      [] type = "axis" -> AxisCode
      [] type = "trigger" -> TriggerCode

(* The event the validator was given. *)
Given == req.events[1]

(***************************************************************************)
(* C1.  Fail-fast batch rejection: a submit whose batch holds an event     *)
(* that per-event validation rejects, at any position, returns an error,   *)
(* leaves lastEvents as it was before the call and hands no frame to the   *)
(* transport.                                                              *)
(***************************************************************************)
C1_FailFast ==
    [][(SubmittedBatch' /\ SomeInvalid(req'.events))
        => (res'.kind = "error" /\ lastEvents' = lastEvents /\ sent' = <<>>)]_vars

(* A batch [valid, invalid] rejected while Connected, an earlier batch kept. *)
C1_Witness ==
    /\ SubmittedBatch
    /\ req.events = <<EvButtonA, EvButtonNum>>
    /\ res.kind = "error"
    /\ lastEvents = <<EvButtonA>>
    /\ Connected

(***************************************************************************)
(* C2.  No partial application: every submit that surfaces an error has    *)
(* left lastEvents unchanged and has handed nothing to the transport.      *)
(***************************************************************************)
C2_NoPartialApplication ==
    [][(op' = "callTool" /\ res'.kind = "error")
        => (lastEvents' = lastEvents /\ sent' = <<>>)]_vars

(***************************************************************************)
(* C3.  At most one transport instance: in every reachable state at most   *)
(* one transport made by the manager is pending or open.                   *)
(***************************************************************************)
C3_AtMostOneTransport == Cardinality(LiveTransports) <= 1

(***************************************************************************)
(* C4.  At most one reconnection timer: in every reachable state at most   *)
(* one interval timer is set, it is the one the handle names, and after a  *)
(* close signal or a timer-driven connect attempt exactly one is set.      *)
(***************************************************************************)
C4_OneTimer ==
    /\ Cardinality(timers) <= 1
    /\ timers = IF wsReconnectInterval = 0 THEN {} ELSE {wsReconnectInterval}
    /\ op \in {"close", "tick"} => Cardinality(timers) = 1

(* A timer tick whose connect() made no transport: the constructor threw and
   the catch block asked for a timer while the one that fired was set. *)
C4_Witness ==
    /\ op = "tick"
    /\ ws = 0
    /\ Cardinality(timers) = 1

(***************************************************************************)
(* C5.  Always eventually reconnect: under fair timer ticks and an         *)
(* endpoint that answers, the manager is Connected again and again; it is  *)
(* never not Connected forever.                                            *)
(***************************************************************************)
C5_EventuallyConnected == []<>Connected

(***************************************************************************)
(* C6.  Once a transport reports open the timer is cancelled and sends     *)
(* transmit: after an open signal the timer handle is clear and the        *)
(* manager's handle refers to an open transport.                           *)
(***************************************************************************)
C6_OpenCancelsTimerAndSends ==
    op = "open" => (wsReconnectInterval = 0 /\ Connected)

(***************************************************************************)
(* C7.  A wholly valid batch of n events submitted while the manager is    *)
(* not Connected returns success with eventsReceived = n, becomes          *)
(* lastEvents, and hands no frame to the transport.                        *)
(***************************************************************************)
C7_ValidWhileDisconnected ==
    (SubmittedBatch /\ AllValid(req.events) /\ ~Connected)
        => /\ res.kind = "success"
           /\ res.eventsReceived = Len(req.events)
           /\ lastEvents = req.events
           /\ sent = <<>>

(***************************************************************************)
(* C8.  A wholly valid batch submitted while the manager is Connected      *)
(* makes exactly one frame, handed to the manager's transport, whose       *)
(* payload is {events: batch} with the submitted events in their order.    *)
(***************************************************************************)
C8_OneFrameWhenConnected ==
    (SubmittedBatch /\ AllValid(req.events) /\ Connected)
        => /\ Len(sent) = 1
           /\ sent[1].via = ws
           /\ sent[1].message = [events |-> req.events]

(* A two-event batch framed while Connected. *)
C8_Witness ==
    /\ SubmittedBatch
    /\ Connected
    /\ req.events = <<EvTriggerNeg, EvButtonA>>
    /\ Len(sent) = 1
    /\ sent[1].message.events = <<EvTriggerNeg, EvButtonA>>

(***************************************************************************)
(* C9.  For an event whose type is button, mouseButton or keyboard,        *)
(* validation succeeds exactly when code is in that type's code set and    *)
(* value is a boolean.                                                     *)
(***************************************************************************)
IsDiscrete(e) ==
    /\ e.shape = "object"
    /\ e.type.t = "string"
    /\ e.type.s \in {"button", "mouseButton", "keyboard"}

C9_DiscreteIff ==
    (op = "validate" /\ IsDiscrete(Given))
        => (res.kind = "success"
            <=> /\ Given.code.t = "string"
                /\ Given.code.s \in ClosedCodeSet(Given.type.s)
                /\ Given.value.t = "boolean")

(* A button whose value is the number 1, rejected. *)
C9_Witness ==
    /\ op = "validate"
    /\ Given = Ev("button", "A", JsNum(Scale))
    /\ res.kind = "error"

(***************************************************************************)
(* C10.  For an event whose type is axis or trigger, validation and        *)
(* submit succeed exactly when code is in that type's code set and value   *)
(* is a number in [-1, 1], endpoints included.                             *)
(***************************************************************************)
IsContinuous(e) ==
    /\ e.shape = "object"
    /\ e.type.t = "string"
    /\ e.type.s \in {"axis", "trigger"}

C10_ContinuousIff ==
    (op \in {"validate", "callTool"} /\ IsContinuous(Given))
        => (res.kind = "success"
            <=> /\ Given.code.t = "string"
                /\ Given.code.s \in ClosedCodeSet(Given.type.s)
                /\ Given.value.t = "number"
                /\ -Scale <= Given.value.n
                /\ Given.value.n <= Scale)

(***************************************************************************)
(* C11.  Cross-type codes are rejected: an event whose code is legal under *)
(* another type but not under its own type fails validation (and submit)   *)
(* with the unknown-code error naming its type and code, whatever its      *)
(* value is.                                                               *)
(***************************************************************************)
UnknownCodeErrors ==
    {"Invalid ${type} code: ${code}",
     "Invalid ${type} code: ${code}. Must be one of: ${codes}"}

IsCrossType(e) ==
    /\ e.shape = "object"
    /\ e.type.t = "string"
    /\ e.type.s \in EventType
    /\ e.code.t = "string"
    /\ e.code.s \notin ClosedCodeSet(e.type.s)
    /\ \E other \in EventType \ {e.type.s} : e.code.s \in ClosedCodeSet(other)

C11_CrossTypeRejected ==
    (op \in {"validate", "callTool"} /\ IsCrossType(Given))
        => /\ res.kind = "error"
           /\ res.code = "InvalidParams"
           /\ res.err \in UnknownCodeErrors
           /\ res.a1 = Given.type
           /\ res.a2 = Given.code

(* trigger / "leftX" with a value that is fine for a trigger, rejected for
   its code. *)
C11_Witness ==
    /\ op = "validate"
    /\ Given = Ev("trigger", "leftX", JsNum(Scale \div 2))
    /\ res.err \in UnknownCodeErrors
    /\ res.a2 = JsStr("leftX")

(***************************************************************************)
(* C12.  Empty-batch policy: a submit whose events field is absent, is not *)
(* a sequence, or is the empty sequence returns an error, leaves           *)
(* lastEvents unchanged and hands no frame to the transport.               *)
(***************************************************************************)
C12_EmptyBatchRejected ==
    [][(/\ op' = "callTool"
        /\ req'.name = "send_gamepad_event"
        /\ (req'.args # "array" \/ req'.events = <<>>))
        => (res'.kind = "error" /\ lastEvents' = lastEvents /\ sent' = <<>>)]_vars

(***************************************************************************)
(* C13.  lastEvents is the single most recent successful batch: from its   *)
(* empty initial value, a submit that returns success replaces it by that  *)
(* submit's batch, element for element and in order, and no other step     *)
(* (a failed submit, a connection event) changes it.                       *)
(***************************************************************************)
C13_LastSuccessfulBatch ==
    [][IF op' = "callTool" /\ res'.kind = "success"
       THEN lastEvents' = req'.events
       ELSE lastEvents' = lastEvents]_vars

(***************************************************************************)
(* C14.  From Connected, a close signal leaves the manager Disconnected:   *)
(* the handle is null, a send hands nothing to a transport, and the        *)
(* reconnection timer named by the timer handle is set.                    *)
(***************************************************************************)
C14_CloseFromConnected ==
    (op = "close" /\ before = "Connected")
        => /\ ws = 0
           /\ StateOf(Mgr) = "Disconnected"
           /\ wsReconnectInterval # 0
           /\ wsReconnectInterval \in timers
           /\ \A r \in Requests : send(Mgr, r.events, FALSE) = <<>>

(* The close of the open transport the manager was using, a batch stored. *)
C14_Witness ==
    /\ op = "close"
    /\ before = "Connected"
    /\ ws = 0
    /\ Cardinality(timers) = 1
    /\ lastEvents = <<EvButtonA>>

(***************************************************************************)
(* C15.  A failed connection attempt schedules reconnection: an error      *)
(* signal (refusal, handshake timeout) received while Connecting is        *)
(* followed by the close that leaves the handle null and the reconnection  *)
(* timer set; and an attempt whose transport construction throws, at       *)
(* start-up or in a timer tick, leaves the timer set.                      *)
(***************************************************************************)
TimerActive == wsReconnectInterval # 0 /\ wsReconnectInterval \in timers

C15_FailedAttemptSchedulesReconnect ==
    /\ []((op \in {"init", "tick"} /\ StateOf(Mgr) # "Connecting") => TimerActive)
    /\ (op = "error" /\ before = "Connecting")
          ~> (op = "close" /\ ws = 0 /\ TimerActive)

(* The first attempt, made at start-up, has just reported an error. *)
C15_Witness ==
    /\ op = "error"
    /\ before = "Connecting"
    /\ StateOf(Mgr) = "Closing"
    /\ timers = {}
    /\ lastEvents = <<>>

(***************************************************************************)
(* C16.  connect() is idempotent while Connected: a call made in the       *)
(* Connected state, and every call after it, makes no transport and leaves *)
(* the handle, every transport's state, the timer handle and the timers    *)
(* as they were.                                                           *)
(***************************************************************************)
C16_ConnectIdempotent ==
    [][(op' = "connect" /\ Connected)
        => UNCHANGED <<ws, readyState, wsReconnectInterval, timers>>]_vars

(* connect() has returned on a Connected manager that also holds a
   superseded pending transport and a stored batch. *)
C16_Witness ==
    /\ op = "connect"
    /\ before = "Connected"
    /\ Connected
    /\ ws = 1
    /\ readyState[2] = "CONNECTING"
    /\ wsReconnectInterval = 0
    /\ lastEvents = <<EvButtonA>>

(***************************************************************************)
(* C17.  Transport failures never reach the caller: what a tool call       *)
(* returns, and what it leaves in lastEvents, is what the same call        *)
(* returns and leaves on a manager that has no transport at all; whether   *)
(* the transport is absent, pending, open, closing, or throws from send()  *)
(* makes no difference to the caller.                                      *)
(***************************************************************************)
C17_TransportContained ==
    [][op' = "callTool"
        => LET e == handleCallTool(build, req', lastEvents, NewMgr, FALSE)
           IN res' = e.res /\ lastEvents' = e.lastEvents]_vars

(* ws.send() threw while Connected; the submit returned success and stored
   the batch. *)
C17_Witness ==
    /\ SubmittedBatch
    /\ Connected
    /\ req.events = <<EvButtonA, EvButtonA>>
    /\ Len(sent) = 1
    /\ sent[1].threw
    /\ res = Success(2)
    /\ lastEvents = req.events

(***************************************************************************)
(* C18.  Inbound frames have no effect on state: a message signal, for     *)
(* data that parses and data that does not, from the current transport or  *)
(* a superseded one, leaves the handle, every transport's state, the timer *)
(* handle, the timers and lastEvents unchanged and hands nothing to a      *)
(* transport.                                                              *)
(***************************************************************************)
C18_InboundNoEffect ==
    [][op' = "message"
        => /\ UNCHANGED <<ws, readyState, wsReconnectInterval, timers, lastEvents>>
           /\ sent' = <<>>]_vars

(* A message received while Connected with a batch stored. *)
C18_Witness ==
    /\ op = "message"
    /\ before = "Connected"
    /\ Connected
    /\ lastEvents = <<EvTriggerNeg>>

(***************************************************************************)
(* C19.  Frame ordering across submissions: frames are handed to a         *)
(* transport only inside a submit, at most one per submit, only by a       *)
(* submit that succeeds, and the frame carries exactly that submit's       *)
(* batch; so the frames are a subsequence of the successful batches.       *)
(***************************************************************************)
C19_FramesOfSuccessfulSubmits ==
    /\ op # "callTool" => sent = <<>>
    /\ op = "callTool"
         => /\ Len(sent) <= 1
            /\ sent # <<>> => /\ SubmittedBatch
                              /\ res.kind = "success"
                              /\ sent[1].message = [events |-> req.events]

(***************************************************************************)
(* C20.  No buffering or replay: a handler other than a submit (open,      *)
(* close, tick, message, error) hands no frame to a transport; a submit    *)
(* made while the manager is not Connected hands none; and a frame never   *)
(* carries anything but the batch of the submit that sends it.             *)
(***************************************************************************)
C20_NoReplay ==
    /\ op # "callTool" => sent = <<>>
    /\ (op = "callTool" /\ before # "Connected") => sent = <<>>
    /\ \A i \in 1..Len(sent) : sent[i].message.events = req.events

(* The open signal of a pending transport, a batch being stored: nothing
   is sent. *)
C20_Witness ==
    /\ op = "open"
    /\ before = "Connecting"
    /\ Connected
    /\ lastEvents = <<EvButtonA, EvTriggerNeg>>
    /\ sent = <<>>

(***************************************************************************)
(* C21.  Validation is the identity on valid input: a successful validate  *)
(* returns the event it was given, type, code and value unchanged;         *)
(* validating a batch of individually valid events returns the same events *)
(* in the same order; and validating what was returned returns it again.   *)
(***************************************************************************)
C21_ValidationIdentity ==
    /\ (op = "validate" /\ res.kind = "success")
         => /\ res.value = <<Given>>
            /\ validateEvent(build.validator, res.value[1]).ok
            /\ validateEvent(build.validator, res.value[1]).ret = res.value[1]
    /\ (op = "validateBatch" /\ validateEvent(build.validator, Given).ok)
         => /\ res.kind = "success"
            /\ res.value = BatchWith(Given)
            /\ validateBatch(build.validator, res.value).ok
            /\ validateBatch(build.validator, res.value).ret = res.value

(* A batch of two different valid events came back as it was given. *)
C21_Witness ==
    /\ op = "validateBatch"
    /\ Given = Ev("axis", "leftX", JsNum(Scale))
    /\ res.kind = "success"
    /\ res.value = <<EvTriggerNeg, Ev("axis", "leftX", JsNum(Scale))>>

(***************************************************************************)
(* C22.  On every successful submit the success descriptor reports         *)
(* eventsReceived equal to the number of events in the submitted batch,    *)
(* which is also the length of lastEvents right after the call.            *)
(***************************************************************************)
C22_CountMatches ==
    (op = "callTool" /\ res.kind = "success")
        => /\ SubmittedBatch
           /\ res.eventsReceived = Len(req.events)
           /\ res.eventsReceived = Len(lastEvents)

(* A two-event batch accepted after a one-event batch. *)
C22_Witness ==
    /\ SubmittedBatch
    /\ req.events = <<EvButtonA, EvTriggerNeg>>
    /\ res.kind = "success"
    /\ res.eventsReceived = 2
    /\ Len(lastEvents) = 2

(***************************************************************************)
(* C23.  A tool call with a name other than send_gamepad_event fails with  *)
(* MethodNotFound; every failure of a tool call carries InvalidParams or   *)
(* MethodNotFound; and a call that fails leaves lastEvents, the transport  *)
(* handle, the transports and the timer unchanged and hands no frame to a  *)
(* transport.                                                              *)
(***************************************************************************)
C23_RejectedCallNoEffect ==
    [][op' = "callTool"
        => /\ req'.name # "send_gamepad_event"
                => (res'.kind = "error" /\ res'.code = "MethodNotFound")
           /\ res'.kind = "error"
                => /\ res'.code \in {"InvalidParams", "MethodNotFound"}
                   /\ lastEvents' = lastEvents
                   /\ UNCHANGED <<ws, readyState, wsReconnectInterval, timers>>
                   /\ sent' = <<>>]_vars

(***************************************************************************)
(* C24.  The events resource is a read-only view: a read returns           *)
(* {events: lastEvents} as of that moment, which is empty before any       *)
(* successful submit (lastEvents is empty at the start and stays empty     *)
(* through every step that is not a successful submit), and a read of any  *)
(* resource, anywhere among submits and connection events, changes neither *)
(* lastEvents nor the handle, the transports or the timer, and hands       *)
(* nothing to a transport.                                                 *)
(***************************************************************************)
C24_EventsResourceReadOnly ==
    /\ [](op = "init" => lastEvents = <<>>)
    /\ [][(op' = "readResource"
            => (/\ UNCHANGED <<lastEvents, ws, readyState, wsReconnectInterval,
                               timers>>
                /\ sent' = <<>>
                /\ req'.name = "gamepad://events"
                     => (res'.kind = "resource"
                         /\ res'.value = <<[events |-> lastEvents]>>)))
           /\ ((lastEvents = <<>> /\ ~(op' = "callTool" /\ res'.kind = "success"))
                => lastEvents' = <<>>)]_vars

(***************************************************************************)
(* C25.  The taxonomy resource lists exactly the (type, code) pairs the    *)
(* validator accepts with some value: every accepted pair, the mouseButton *)
(* and keyboard ones included, is an entry of buttonEvents or              *)
(* sliderEvents, and every entry is an accepted pair.                      *)
(***************************************************************************)
AcceptedPairs(validator) ==
    {p \in (EventType \cup {"bogus"}) \X (AllCodes \cup {"bogus"}) :
        \E v \in {JsBool(TRUE), JsNum(0)} :
            validateEvent(validator, Ev(p[1], p[2], v)).ok}

C25_TaxonomyResourceComplete ==
    (op = "readResource" /\ req.name = "gamepad://valid-events")
        => /\ res.kind = "resource"
           /\ res.value[1].buttonEvents \cup res.value[1].sliderEvents
                = AcceptedPairs(build.validator)

(***************************************************************************)
(* C26.  Validation failures are classified by the first failing check in  *)
(* the order structure, type and code are strings, known type, known code, *)
(* value domain: e.g. a non-string code with an unrecognised type is       *)
(* malformed, an unrecognised type is unknown type whatever code and value *)
(* are, an unknown code with an out-of-domain value is unknown code.       *)
(***************************************************************************)
MalformedErrors ==
    {"Invalid event format: event must be an object",
     "Invalid event format: type and code must be strings",
     "Event must be an object",
     "Event code is required"}

UnknownTypeErrors ==
    {"Invalid event type: ${type}",
     "Invalid event type: ${type}. Must be one of: ${types}"}

FailureKind(r) ==
    IF r.kind # "error" THEN "none"
    ELSE IF r.err \in MalformedErrors THEN "Malformed"
    ELSE IF r.err \in UnknownTypeErrors THEN "UnknownType"
    ELSE IF r.err \in UnknownCodeErrors THEN "UnknownCode"
    ELSE "InvalidValue"

FirstFailingCheck(e) ==
    IF e.shape # "object" THEN "Malformed"
    ELSE IF e.type.t # "string" \/ e.code.t # "string" THEN "Malformed"
    ELSE IF e.type.s \notin EventType THEN "UnknownType"
    ELSE IF e.code.s \notin ClosedCodeSet(e.type.s) THEN "UnknownCode"
    ELSE IF e.type.s \in {"axis", "trigger"} /\ AnalogOutOfRange(e.value)
    THEN "InvalidValue"
    ELSE IF e.type.s \notin {"axis", "trigger"} /\ e.value.t # "boolean"
    THEN "InvalidValue"
    ELSE "none"

C26_FirstFailingCheck ==
    op = "validate" => FailureKind(res) = FirstFailingCheck(Given)

(***************************************************************************)
(* C27.  Validation is deterministic and state-independent: what a tool    *)
(* call returns (success, or the failure with its code, message and the    *)
(* values named in it) is what the same call returns on a freshly          *)
(* constructed server: no transport, no timer, nothing stored, no earlier  *)
(* submission.                                                             *)
(***************************************************************************)
C27_StateIndependent ==
    [][op' = "callTool"
        => res' = handleCallTool(build, req', <<>>, NewMgr, FALSE).res]_vars

(* A batch rejected for its second event, while Connected and with an
   earlier batch stored. *)
C27_Witness ==
    /\ SubmittedBatch
    /\ req.events = <<EvTriggerNeg, EvButtonNum>>
    /\ res.kind = "error"
    /\ res.err = "Invalid value for ${type}: must be boolean"
    /\ lastEvents = <<EvButtonA, EvButtonA>>
    /\ Connected

(***************************************************************************)
(* C28.  The reconnection timer is cancelled exactly when a connection is  *)
(* established and re-armed once per disconnect: no timer is set while the *)
(* manager is Connected; a close signal leaves the timer set; and a timer  *)
(* that is set stays set until the manager is Connected.                   *)
(***************************************************************************)
C28_TimerFollowsConnection ==
    /\ [](Connected => (wsReconnectInterval = 0 /\ timers = {}))
    /\ [](op = "close" => TimerActive)
    /\ [][(TimerActive /\ ~Connected') => TimerActive']_vars

(***************************************************************************)
(* C29.  Every example invocation of the send_gamepad_event descriptor is  *)
(* accepted by submit: it returns success with eventsReceived equal to the *)
(* example's event count.                                                  *)
(***************************************************************************)
C29_ExamplesAccepted ==
    (SubmittedBatch /\ req.events \in Examples(build))
        => (res.kind = "success" /\ res.eventsReceived = Len(req.events))

(***************************************************************************)
(* C30.  No stuck state: whenever the manager's handle is not an open      *)
(* transport, the handle refers to a transport that is still pending (or   *)
(* whose close is still to be delivered) or the reconnection timer is set; *)
(* the handle is never null with no timer set.                             *)
(***************************************************************************)
C30_NoStuckState == StateOf(Mgr) = "Disconnected" => TimerActive

(***************************************************************************)
(* C31.  Signals from a superseded transport do not affect the current     *)
(* one: a close signal from a transport other than the one the handle      *)
(* names leaves the handle as it is, and an open signal from a transport   *)
(* other than the one the handle names leaves the timer as it is while the *)
(* handle's transport is not open.                                         *)
(***************************************************************************)
C31_SupersededSignalsIgnored ==
    [][/\ (op' = "close" /\ ws # 0 /\ readyState'[ws] # "NONE") => ws' = ws
       /\ (op' = "open" /\ ws # 0 /\ readyState'[ws] = "CONNECTING")
            => UNCHANGED <<wsReconnectInterval, timers>>]_vars

(***************************************************************************)
(* C32.  A frame is handed only to the transport the manager's handle      *)
(* names, only while that transport is open, and its events are lastEvents *)
(* as of that moment.                                                      *)
(***************************************************************************)
C32_FrameViaOpenHandle ==
    \A i \in 1..Len(sent) :
        /\ ws # 0
        /\ sent[i].via = ws
        /\ readyState[ws] = "OPEN"
        /\ sent[i].message.events = lastEvents

(* A frame sent through the handle's transport while a superseded transport
   is open as well. *)
C32_Witness ==
    /\ op = "callTool"
    /\ Len(sent) = 1
    /\ ws = 2
    /\ sent[1].via = 2
    /\ readyState[1] = "OPEN"
    /\ sent[1].message.events = <<EvButtonA>>
    /\ lastEvents = <<EvButtonA>>

(***************************************************************************)
(* C33.  Every element of lastEvents, and every event of every frame, is a *)
(* well-formed GamepadEvent: its type is one of the five, its code is in   *)
(* that type's code set, its value is a boolean for button, mouseButton    *)
(* and keyboard and a number in [-1, 1] for axis and trigger.              *)
(***************************************************************************)
WellFormed(e) ==
    /\ e.shape = "object"
    /\ e.type.t = "string"
    /\ e.type.s \in EventType
    /\ e.code.t = "string"
    /\ e.code.s \in ClosedCodeSet(e.type.s)
    /\ IF e.type.s \in {"axis", "trigger"}
       THEN e.value.t = "number" /\ -Scale <= e.value.n /\ e.value.n <= Scale
       ELSE e.value.t = "boolean"

C33_StoredEventsWellFormed ==
    /\ \A i \in 1..Len(lastEvents) : WellFormed(lastEvents[i])
    /\ \A k \in 1..Len(sent) :
         \A i \in 1..Len(sent[k].message.events) :
            WellFormed(sent[k].message.events[i])

(* A trigger at the lower end of its interval, stored and sent. *)
C33_Witness ==
    /\ op = "callTool"
    /\ Connected
    /\ lastEvents = <<Ev("trigger", "rightTrigger", JsNum(-Scale))>>
    /\ Len(sent) = 1
    /\ sent[1].message.events = lastEvents

(***************************************************************************)
(* C34.  An error signal on its own changes neither the handle nor the     *)
(* timer handle; a timer is armed only by a close signal or by a throwing  *)
(* transport constructor inside connect() (at start-up, where the handle   *)
(* stays null, or in a timer tick, which makes no transport then).         *)
(***************************************************************************)
ArmsTimer ==
    \/ timers' \ timers # {}
    \/ wsReconnectInterval' # 0 /\ wsReconnectInterval' # wsReconnectInterval

C34_ErrorAloneArmsNothing ==
    /\ []((op = "init" /\ timers # {}) => ws = 0)
    /\ [][(op' = "error" => UNCHANGED <<ws, wsReconnectInterval, timers>>)
          /\ (ArmsTimer => (op' = "close"
                            \/ (op' = "tick" /\ readyState' = readyState)))]_vars

(* The error of the open transport the manager is using: handle kept, no
   timer. *)
C34_Witness ==
    /\ op = "error"
    /\ before = "Connected"
    /\ ws # 0
    /\ wsReconnectInterval = 0
    /\ timers = {}
    /\ lastEvents = <<EvButtonA>>

=============================================================================
